---- MODULE Spec2Model ----
(***************************************************************************)
(* The /chatbot request handler of src/GPT_backend.py and its session      *)
(* memory (chat_histories), as a state machine.  Every request thread      *)
(* walks the handler line by line; a step is one access to shared state    *)
(* (the chat_histories dict or a ChatHistory object) together with the     *)
(* thread-local computation that follows it up to the next access.  The    *)
(* external oracle (the OpenAI client) is a nondeterministic choice over   *)
(* the replies it can give, an exception included.                         *)
(***************************************************************************)
EXTENDS Integers, Sequences, FiniteSets, TLC

VARIABLES
    chat_histories,  \* the dict of line 20: session id -> object ref (0: key absent)
    heap,            \* the ChatHistory objects created so far, by object ref
    nreq,            \* number of requests received so far
    pc,              \* per thread: the line of chatbot() it is about to execute
    req,             \* per thread: query, session_id and number of its request
    chat_history,    \* per thread: the local variable of line 345 (object ref)
    matched_book,    \* per thread: the local variable of line 352
    answer,          \* per thread: the local variable of lines 365 / 391
    detailed_response, \* per thread: the local variable of line 354
    resp,            \* per thread: the HTTP response returned
    pre,             \* per thread: the session's state when the request arrived
    log              \* per thread: oracle calls made and branch handlers run

vars == <<chat_histories, heap, nreq, pc, req, chat_history, matched_book,
          answer, detailed_response, resp, pre, log>>

----------------------------------------------------------------------------
(* Bounds of the model *)

\* requests served in one behaviour, one after the other
MaxRequests == 2
\* requests served in one behaviour by threads that interleave
MaxParallelRequests == 2
\* longest book list the oracle replies with
MaxBooks == 4

Threads == {"t1", "t2"}

----------------------------------------------------------------------------
(* Values *)

None == "None"
SessionIds == {"default", "s1"}
\* data.get('session_id', 'default'): the key may be absent from the body
SessionInputs == SessionIds \cup {None}
Queries == {"q1", "q2"}
\* data.get('query'): absent, empty, or a text
QueryInputs == Queries \cup {None, ""}

\* Message.timestamp: the default datetime.now() is evaluated once, when the
\* class body runs
ClassDefTime == 0

Message(role, content, r) ==
    [role |-> role, content |-> content, timestamp |-> ClassDefTime, req |-> r]

ChatHistory == [messages |-> <<>>, last_recommended_books |-> <<>>, last_query |-> None]

CriteriaCaption == "Here are some books matching your criteria:"
RejectionText == "I'm just a bookseller, I can help you find the next book to read but nothing else"
FreshCaption == "Here are some books you might like:"
NoQueryError == "No query provided"

\* the default books of generate_response's except clause, by title
DefaultBooks == <<"The Great Gatsby", "1984", "To Kill a Mockingbird">>

\* books the oracle can name, by title; Malformed is an entry lacking one of
\* the five keys; Foreign is a book in none of the lists
Catalogue == <<"A", "B", "C", "D", "E", "F">>
Malformed == "<malformed>"
Foreign == "Z"

\* an Optional value of a response: absent, or present with a value
Absent == <<>>
Present(v) == <<v>>

\* a JSON value the book-followup oracle can reply with that is falsy in
\* Python ({}, 0, "", false)
Falsy == "<falsy>"

\* chat_history[-n:]
LastN(s, n) == IF Len(s) <= n THEN s ELSE SubSeq(s, Len(s) - n + 1, Len(s))
\* the context windows of analyze_query and generate_response
AnalyzeWindow == 3
GenerateWindow == 5

Range(s) == {s[i] : i \in 1..Len(s)}

----------------------------------------------------------------------------
(* The oracle: the replies client.chat.completions.create can give *)

\* a reply to generate_response's request: the call raises; the content is
\* no JSON; the JSON is no object with a 'books' list; or 'books' is a list
\* of entries; with "links_raise" the list is as wanted but a call of
\* fetch_real_links raises
BookLists ==
    {SubSeq(Catalogue, 1, n) : n \in 0..MaxBooks}
    \cup {[SubSeq(Catalogue, 1, n) EXCEPT ![n] = Malformed] : n \in 1..MaxBooks}
RecReplies ==
    {[kind |-> k, books |-> <<>>] : k \in {"raise", "notjson", "nobooks"}}
    \cup {[kind |-> k, books |-> b] : k \in {"json", "links_raise"}, b \in BookLists}

\* a reply to is_book_followup's request: the call raises, 'null', no JSON,
\* or a JSON value: one of the books listed, another book, a value that is
\* no book (keys missing, or no object), a falsy value
BookReplies(last_books) ==
    {[kind |-> k, value |-> None] : k \in {"raise", "null", "notjson"}}
    \cup {[kind |-> "json", value |-> v] :
            v \in Range(last_books) \cup {Foreign, Malformed, Falsy}}

\* a reply to a classification request, after strip().lower()
BoolReplies == {"raise", "true", "false", "maybe"}

DetailTexts == {"detail"}
DetailReplies == {"raise"} \cup DetailTexts

----------------------------------------------------------------------------
(* The functions of the module, by what they return for a reply *)

Returned(v) == [raised |-> FALSE, value |-> v]
Raised == [raised |-> TRUE, value |-> None]

\* analyze_query and is_criteria_followup: answer == "true"
classify(reply) ==
    IF reply = "raise" THEN Raised ELSE Returned(reply = "true")

is_book_followup(last_books, reply) ==
    IF last_books = <<>> THEN Returned(None)
    ELSE IF reply.kind = "raise" THEN Raised
    ELSE IF reply.kind = "null" THEN Returned(None)
    ELSE IF reply.kind = "notjson" THEN Returned(None)
    ELSE Returned(reply.value)

\* Python's truth value of what is_book_followup returned
Truthy(v) == v \notin {None, Falsy}

\* the f-string of lines 151-154 reads book['title'], book['author'] and
\* book['summary'] before the oracle is called
get_book_details(book, reply) ==
    IF book = Malformed THEN Raised
    ELSE IF reply = "raise" THEN Raised
    ELSE Returned(reply)

\* generate_response without the test len(books) == 0 of line 271
generate_response_EmptyAccepted(reply) ==
    IF reply.kind # "json" THEN DefaultBooks
    ELSE IF \E i \in 1..Len(reply.books) : reply.books[i] = Malformed THEN DefaultBooks
    ELSE reply.books

generate_response(reply) ==
    IF reply.kind # "json" THEN DefaultBooks
    ELSE IF Len(reply.books) = 0 THEN DefaultBooks
    ELSE IF \E i \in 1..Len(reply.books) : reply.books[i] = Malformed THEN DefaultBooks
    ELSE reply.books

----------------------------------------------------------------------------
(* State *)

SessionState(sid) ==
    IF chat_histories[sid] = 0 THEN ChatHistory ELSE heap[chat_histories[sid]]

NoRequest == [body |-> FALSE, query |-> None, session_id |-> None, id |-> 0]
NoResponse == [status |-> 0, text |-> None, books |-> Absent, session_id |-> None]

Init ==
    /\ chat_histories = [s \in SessionIds |-> 0]
    /\ heap = <<>>
    /\ nreq = 0
    /\ pc = [t \in Threads |-> "idle"]
    /\ req = [t \in Threads |-> NoRequest]
    /\ chat_history = [t \in Threads |-> 0]
    /\ matched_book = [t \in Threads |-> None]
    /\ answer = [t \in Threads |-> <<>>]
    /\ detailed_response = [t \in Threads |-> None]
    /\ resp = [t \in Threads |-> NoResponse]
    /\ pre = [t \in Threads |-> ChatHistory]
    /\ log = [t \in Threads |-> <<>>]

AppendMessage(h, role, content, r) ==
    [h EXCEPT !.messages = Append(@, Message(role, content, r))]

Ok(text, books, sid) ==
    [status |-> 200, text |-> text, books |-> books, session_id |-> sid]
Error(status, text) ==
    [status |-> status, text |-> text, books |-> Absent, session_id |-> None]

\* the except clause of lines 404-406
Fail(t) ==
    /\ resp' = [resp EXCEPT ![t] = Error(500, "error")]
    /\ pc' = [pc EXCEPT ![t] = "done"]

Goto(t, l) == pc' = [pc EXCEPT ![t] = l]

Me(t) == heap[chat_history[t]]
Logged(t, e) == log' = [log EXCEPT ![t] = Append(@, e)]
Store(t, h) == heap' = [heap EXCEPT ![chat_history[t]] = h]

----------------------------------------------------------------------------
(* chatbot(), lines 332-406, one action per access to shared state *)

\* NoQuery testing only for a missing key (query is None)
NoQuery_MissingOnly(q) == q = None

\* line 338: not query
NoQuery(q) == q \in {None, ""}

\* lines 334-339: the body is read; a body that is no JSON object makes
\* data.get raise; a missing or empty query is answered 400
Receive(t, max) ==
    /\ pc[t] = "idle"
    /\ nreq < max
    /\ \E body \in BOOLEAN, q \in QueryInputs, s \in SessionInputs :
         LET sid == IF s = None THEN "default" ELSE s IN
         /\ nreq' = nreq + 1
         /\ req' = [req EXCEPT ![t] = [body |-> body, query |-> q,
                                       session_id |-> sid, id |-> nreq + 1]]
         /\ pre' = [pre EXCEPT ![t] = SessionState(sid)]
         /\ IF ~body THEN Fail(t)
            ELSE IF NoQuery(q)
            THEN /\ resp' = [resp EXCEPT ![t] = Error(400, NoQueryError)]
                 /\ Goto(t, "done")
            ELSE /\ Goto(t, "L342")
                 /\ UNCHANGED resp
    /\ UNCHANGED <<chat_histories, heap, chat_history, matched_book, answer,
                   detailed_response, log>>

\* line 342: session_id not in chat_histories
CheckSession(t) ==
    /\ pc[t] = "L342"
    /\ Goto(t, IF chat_histories[req[t].session_id] = 0 THEN "L343" ELSE "L345")
    /\ UNCHANGED <<chat_histories, heap, nreq, req, chat_history, matched_book,
                   answer, detailed_response, resp, pre, log>>

\* CreateSession with the defaults of lines 28-30 shared by every
\* ChatHistory instead of copied for each: all keys name one state
CreateSession_SharedDefault(t) ==
    /\ pc[t] = "L343"
    /\ heap' = IF heap = <<>> THEN <<ChatHistory>> ELSE heap
    /\ chat_histories' = [chat_histories EXCEPT ![req[t].session_id] = 1]
    /\ Goto(t, "L345")
    /\ UNCHANGED <<nreq, req, chat_history, matched_book, answer,
                   detailed_response, resp, pre, log>>

\* line 343: chat_histories[session_id] = ChatHistory()
CreateSession(t) ==
    /\ pc[t] = "L343"
    /\ heap' = Append(heap, ChatHistory)
    /\ chat_histories' = [chat_histories EXCEPT ![req[t].session_id] = Len(heap) + 1]
    /\ Goto(t, "L345")
    /\ UNCHANGED <<nreq, req, chat_history, matched_book, answer,
                   detailed_response, resp, pre, log>>

\* line 345: chat_history = chat_histories[session_id]
GetSession(t) ==
    /\ pc[t] = "L345"
    /\ chat_history' = [chat_history EXCEPT ![t] = chat_histories[req[t].session_id]]
    /\ Goto(t, "L348")
    /\ UNCHANGED <<chat_histories, heap, nreq, req, matched_book, answer,
                   detailed_response, resp, pre, log>>

\* AppendUser with the append of line 348 left out
AppendUser_Skipped(t) ==
    /\ pc[t] = "L348"
    /\ Goto(t, "L351")
    /\ UNCHANGED <<chat_histories, heap, nreq, req, chat_history, matched_book,
                   answer, detailed_response, resp, pre, log>>

\* line 348: the user message is appended before any oracle is consulted
AppendUser(t) ==
    /\ pc[t] = "L348"
    /\ Store(t, AppendMessage(Me(t), "user", req[t].query, req[t].id))
    /\ Goto(t, "L351")
    /\ UNCHANGED <<chat_histories, nreq, req, chat_history, matched_book, answer,
                   detailed_response, resp, pre, log>>

\* line 351: if chat_history.last_recommended_books
GuardBook(t) ==
    /\ pc[t] = "L351"
    /\ Goto(t, IF Me(t).last_recommended_books # <<>> THEN "L352" ELSE "L363")
    /\ UNCHANGED <<chat_histories, heap, nreq, req, chat_history, matched_book,
                   answer, detailed_response, resp, pre, log>>

\* AfterMatch without the return of lines 356-360: a match falls through to
\* the criteria check
AfterMatch_FallThrough(v) == "L363"

\* line 353: if matched_book
AfterMatch(v) == IF Truthy(v) THEN "L354" ELSE "L363"

\* lines 352-353: is_book_followup(query, chat_history.last_recommended_books);
\* the oracle is called unless the list passed is empty (line 69)
MatchBook(t) ==
    /\ pc[t] = "L352"
    /\ LET last_books == Me(t).last_recommended_books IN
       \E reply \in BookReplies(last_books) :
         LET r == is_book_followup(last_books, reply) IN
         /\ IF last_books = <<>> THEN UNCHANGED log
            ELSE Logged(t, [op |-> "is_book_followup", query |-> req[t].query,
                            last_books |-> last_books, result |-> r])
         /\ IF r.raised
            THEN Fail(t) /\ UNCHANGED matched_book
            ELSE /\ matched_book' = [matched_book EXCEPT ![t] = r.value]
                 /\ Goto(t, AfterMatch(r.value))
                 /\ UNCHANGED resp
    /\ UNCHANGED <<chat_histories, heap, nreq, req, chat_history, answer,
                   detailed_response, pre>>

\* line 354: get_book_details(matched_book, query)
BookDetails(t) ==
    /\ pc[t] = "L354"
    /\ \E reply \in DetailReplies :
         LET r == get_book_details(matched_book[t], reply) IN
         /\ IF matched_book[t] = Malformed THEN UNCHANGED log
            ELSE Logged(t, [op |-> "get_book_details", query |-> req[t].query,
                            book |-> matched_book[t], result |-> r])
         /\ IF r.raised
            THEN Fail(t) /\ UNCHANGED detailed_response
            ELSE /\ detailed_response' = [detailed_response EXCEPT ![t] = r.value]
                 /\ Goto(t, "L355")
                 /\ UNCHANGED resp
    /\ UNCHANGED <<chat_histories, heap, nreq, req, chat_history, matched_book,
                   answer, pre>>

\* Respond appending detailed_response, as line 355 does, in every branch
Respond_DetailAppended(t, branch, text, books) ==
    /\ Store(t, AppendMessage(Me(t), "assistant", detailed_response[t], req[t].id))
    /\ resp' = [resp EXCEPT ![t] = Ok(text, books, req[t].session_id)]
    /\ Logged(t, [op |-> "respond", branch |-> branch])
    /\ Goto(t, "done")
    /\ UNCHANGED <<chat_histories, nreq, req, chat_history, matched_book, answer,
                   detailed_response, pre>>

\* the branch handlers end alike: the assistant message is appended and the
\* response returned (lines 355-360, 370-376, 383-388, 397-403)
Respond(t, branch, text, books) ==
    /\ Store(t, AppendMessage(Me(t), "assistant", text, req[t].id))
    /\ resp' = [resp EXCEPT ![t] = Ok(text, books, req[t].session_id)]
    /\ Logged(t, [op |-> "respond", branch |-> branch])
    /\ Goto(t, "done")
    /\ UNCHANGED <<chat_histories, nreq, req, chat_history, matched_book, answer,
                   detailed_response, pre>>

\* RespondDetail answering with the stored list instead of None
RespondDetail_WithBooks(t) ==
    /\ pc[t] = "L355"
    /\ Respond(t, "book_followup", detailed_response[t],
               Present(Me(t).last_recommended_books))

\* lines 355-360
RespondDetail(t) ==
    /\ pc[t] = "L355"
    /\ Respond(t, "book_followup", detailed_response[t], Absent)

\* HasLastQuery without the test of chat_history.last_query
HasLastQuery_Always(last_query) == TRUE

\* line 363: the truth value of chat_history.last_query
HasLastQuery(last_query) == last_query \notin {None, ""}

\* line 363: chat_history.last_query and is_criteria_followup(query, last_query)
GuardCriteria(t) ==
    /\ pc[t] = "L363"
    /\ LET last_query == Me(t).last_query IN
       IF ~HasLastQuery(last_query)
       THEN Goto(t, "L378") /\ UNCHANGED <<resp, log>>
       ELSE \E reply \in BoolReplies :
              LET r == classify(reply) IN
              /\ Logged(t, [op |-> "is_criteria_followup", query |-> req[t].query,
                            last_query |-> last_query, result |-> r])
              /\ IF r.raised THEN Fail(t)
                 ELSE /\ Goto(t, IF r.value THEN "L365" ELSE "L378")
                      /\ UNCHANGED resp
    /\ UNCHANGED <<chat_histories, heap, nreq, req, chat_history, matched_book,
                   answer, detailed_response, pre>>

\* generate_response(query, chat_history.messages, criteria), lines 205-329
Generate(t, query, criteria, next) ==
    /\ \E reply \in RecReplies :
         LET books == generate_response(reply) IN
         /\ answer' = [answer EXCEPT ![t] = books]
         /\ Logged(t, [op |-> "generate_response", query |-> query,
                       history |-> LastN(Me(t).messages, GenerateWindow),
                       criteria |-> criteria, result |-> Returned(books)])
    /\ Goto(t, next)
    /\ UNCHANGED <<chat_histories, heap, nreq, req, chat_history, matched_book,
                   detailed_response, resp, pre>>

\* GenerateCriteria with the current query sent as the base request
GenerateCriteria_CurrentQuery(t) ==
    /\ pc[t] = "L365"
    /\ Generate(t, req[t].query, req[t].query, "L368")

\* line 365
GenerateCriteria(t) ==
    /\ pc[t] = "L365"
    /\ Generate(t, Me(t).last_query, req[t].query, "L368")

\* lines 368 and 394: chat_history.last_recommended_books = ...
StoreBooks(t, next) ==
    /\ Store(t, [Me(t) EXCEPT !.last_recommended_books = answer[t]])
    /\ Goto(t, next)
    /\ UNCHANGED <<chat_histories, nreq, req, chat_history, matched_book, answer,
                   detailed_response, resp, pre, log>>

StoreBooksCriteria(t) ==
    /\ pc[t] = "L368"
    /\ StoreBooks(t, "L370")

\* RespondCriteria answering None for the books, as the branches without
\* a list do
RespondCriteria_NoBooks(t) ==
    /\ pc[t] = "L370"
    /\ Respond(t, "criteria_followup", CriteriaCaption, Absent)

\* lines 370-376
RespondCriteria(t) ==
    /\ pc[t] = "L370"
    /\ Respond(t, "criteria_followup", CriteriaCaption, Present(answer[t]))

\* lines 378-381: analyze_query(query, chat_history.messages)
AnalyzeQuery(t) ==
    /\ pc[t] = "L378"
    /\ \E reply \in BoolReplies :
         LET r == classify(reply) IN
         /\ Logged(t, [op |-> "analyze_query", query |-> req[t].query,
                       history |-> LastN(Me(t).messages, AnalyzeWindow),
                       result |-> r])
         /\ IF r.raised THEN Fail(t)
            ELSE /\ Goto(t, IF r.value THEN "L391" ELSE "L383")
                 /\ UNCHANGED resp
    /\ UNCHANGED <<chat_histories, heap, nreq, req, chat_history, matched_book,
                   answer, detailed_response, pre>>

\* RespondOffTopic answering with the stored list instead of None
RespondOffTopic_WithBooks(t) ==
    /\ pc[t] = "L383"
    /\ Respond(t, "off_topic", RejectionText, Present(Me(t).last_recommended_books))

\* lines 382-388
RespondOffTopic(t) ==
    /\ pc[t] = "L383"
    /\ Respond(t, "off_topic", RejectionText, Absent)

\* line 391
GenerateFresh(t) ==
    /\ pc[t] = "L391"
    /\ Generate(t, req[t].query, None, "L394")

StoreBooksFresh(t) ==
    /\ pc[t] = "L394"
    /\ StoreBooks(t, "L395")

\* StoreQuery with the assignment of line 395 left out
StoreQuery_Skipped(t) ==
    /\ pc[t] = "L395"
    /\ Goto(t, "L397")
    /\ UNCHANGED <<chat_histories, heap, nreq, req, chat_history, matched_book,
                   answer, detailed_response, resp, pre, log>>

\* line 395: chat_history.last_query = query
StoreQuery(t) ==
    /\ pc[t] = "L395"
    /\ Store(t, [Me(t) EXCEPT !.last_query = req[t].query])
    /\ Goto(t, "L397")
    /\ UNCHANGED <<chat_histories, nreq, req, chat_history, matched_book, answer,
                   detailed_response, resp, pre, log>>

\* lines 397-403
RespondFresh(t) ==
    /\ pc[t] = "L397"
    /\ Respond(t, "fresh", FreshCaption, Present(answer[t]))

\* the response is sent and the thread's locals are gone
Return(t) ==
    /\ pc[t] = "done"
    /\ Goto(t, "idle")
    /\ req' = [req EXCEPT ![t] = NoRequest]
    /\ chat_history' = [chat_history EXCEPT ![t] = 0]
    /\ matched_book' = [matched_book EXCEPT ![t] = None]
    /\ answer' = [answer EXCEPT ![t] = <<>>]
    /\ detailed_response' = [detailed_response EXCEPT ![t] = None]
    /\ resp' = [resp EXCEPT ![t] = NoResponse]
    /\ pre' = [pre EXCEPT ![t] = ChatHistory]
    /\ log' = [log EXCEPT ![t] = <<>>]
    /\ UNCHANGED <<chat_histories, heap, nreq>>

\* the steps of a request that was received
Handle(t) ==
    \/ CheckSession(t)
    \/ CreateSession(t)
    \/ GetSession(t)
    \/ AppendUser(t)
    \/ GuardBook(t)
    \/ MatchBook(t)
    \/ BookDetails(t)
    \/ RespondDetail(t)
    \/ GuardCriteria(t)
    \/ GenerateCriteria(t)
    \/ StoreBooksCriteria(t)
    \/ RespondCriteria(t)
    \/ AnalyzeQuery(t)
    \/ RespondOffTopic(t)
    \/ GenerateFresh(t)
    \/ StoreBooksFresh(t)
    \/ StoreQuery(t)
    \/ RespondFresh(t)
    \/ Return(t)

\* the development server handles each request in a thread of its own
\* (app.run, line 409): the threads' steps interleave
Next == \E t \in Threads : Receive(t, MaxParallelRequests) \/ Handle(t)

Spec == Init /\ [][Next]_vars

\* requests served one after the other: a request is received when no
\* other is being handled
Alone(t) == \A u \in Threads \ {t} : pc[u] = "idle"
SerialReceive(t) == Alone(t) /\ Receive(t, MaxRequests)
SeqNext == \E t \in Threads : SerialReceive(t) \/ Handle(t)

SeqSpec == Init /\ [][SeqNext]_vars

----------------------------------------------------------------------------
(* What the claims speak of *)

Done(t) == pc[t] = "done"
Succeeded(t) == Done(t) /\ resp[t].status = 200
\* the state now stored for the session of t's request
Stored(t) == SessionState(req[t].session_id)
Entries(t, op) == {i \in 1..Len(log[t]) : log[t][i].op = op}
Called(t, op) == Entries(t, op) # {}
\* the oracle function op was called and returned v
Answered(t, op, v) ==
    \E i \in Entries(t, op) :
        ~log[t][i].result.raised /\ log[t][i].result.value = v
Responded(t, branch) ==
    \E i \in Entries(t, "respond") : log[t][i].branch = branch
IsPrefix(s, u) == Len(s) <= Len(u) /\ SubSeq(u, 1, Len(s)) = s

\* the place of a function in the order of the dispatch chain
Rank(op) ==
    CASE op = "is_book_followup" -> 1
      [] op = "get_book_details" -> 2
      [] op = "is_criteria_followup" -> 3
      [] op = "analyze_query" -> 4
      [] op = "generate_response" -> 5
      [] op = "respond" -> 6

----------------------------------------------------------------------------
(* C1: a request answered 200 leaves the session's messages longer by       *)
(* exactly 2, a user message followed by an assistant message; a request    *)
(* answered 400 leaves their length as it was (requests served one after    *)
(* the other).                                                              *)
C1_TwoMessagesPerSuccess ==
    \A t \in Threads :
        LET before == pre[t].messages
            after == Stored(t).messages
        IN  /\ Succeeded(t) =>
                /\ Len(after) = Len(before) + 2
                /\ IsPrefix(before, after)
                /\ after[Len(after) - 1].role = "user"
                /\ after[Len(after)].role = "assistant"
            /\ Done(t) /\ resp[t].status = 400 => Len(after) = Len(before)

\* a request succeeded in a session that had messages already
C1_Witness ==
    \E t \in Threads : Succeeded(t) /\ Len(pre[t].messages) >= 2

(* C2: the guards are consulted in the order book-followup, criteria-       *)
(* followup, topic; when the book-followup oracle returns a book neither    *)
(* the criteria-followup nor the topic oracle is called; when the criteria- *)
(* followup oracle returns true the topic oracle is not called; one branch  *)
(* handler, the first whose guard matched, produces the response.           *)
C2_GuardOrder ==
    \A t \in Threads :
        /\ \A i, j \in 1..Len(log[t]) :
               i < j => Rank(log[t][i].op) < Rank(log[t][j].op)
        /\ (\E v \in Range(Catalogue) \cup Range(DefaultBooks) \cup {Foreign, Malformed} :
               Answered(t, "is_book_followup", v))
           => /\ ~Called(t, "is_criteria_followup")
              /\ ~Called(t, "analyze_query")
              /\ ~Called(t, "generate_response")
              /\ Succeeded(t) => Responded(t, "book_followup")
        /\ Answered(t, "is_criteria_followup", TRUE)
           => /\ ~Called(t, "analyze_query")
              /\ Succeeded(t) => Responded(t, "criteria_followup")
        /\ Answered(t, "analyze_query", FALSE)
           => /\ ~Called(t, "generate_response")
              /\ Succeeded(t) => Responded(t, "off_topic")
        /\ Answered(t, "analyze_query", TRUE)
           => (Succeeded(t) => Responded(t, "fresh"))
        /\ Cardinality(Entries(t, "respond")) <= 1
        /\ Succeeded(t) => Cardinality(Entries(t, "respond")) = 1

\* the book-followup oracle matched a book in a session with a last query,
\* and the request was answered
C2_Witness ==
    \E t \in Threads :
        /\ Succeeded(t)
        /\ Answered(t, "is_book_followup", Catalogue[1])
        /\ Me(t).last_query # None

(* C3: the appends of two requests for the same session do not interleave:  *)
(* in the messages of the state a request worked on, the request's user     *)
(* message is immediately followed by the request's own assistant message.  *)
C3_NoInterleavedAppends ==
    \A t \in Threads :
        Succeeded(t) =>
            LET m == Me(t).messages IN
            \A i \in 1..Len(m) :
                (m[i].req = req[t].id /\ m[i].role = "user")
                => /\ i < Len(m)
                   /\ m[i + 1].req = req[t].id
                   /\ m[i + 1].role = "assistant"

(* C4: get-or-create is idempotent under any interleaving: a request that   *)
(* was answered worked on the state stored for its session, so the stored   *)
(* state holds the messages of every such request.                          *)
C4_GetOrCreateIdempotent ==
    \A t \in Threads :
        Succeeded(t) =>
            /\ chat_history[t] = chat_histories[req[t].session_id]
            /\ \E i \in 1..Len(Stored(t).messages) :
                   Stored(t).messages[i].req = req[t].id

(* C5: a request in which an oracle call raised ends with the 500 response  *)
(* and leaves the session's state (messages, last_recommended_books,        *)
(* last_query) exactly as it was before the request (requests served one    *)
(* after the other).                                                        *)
OracleRaised(t) ==
    \E i \in 1..Len(log[t]) : log[t][i].op # "respond" /\ log[t][i].result.raised

C5_NoMutationOnOracleFailure ==
    \A t \in Threads :
        (Done(t) /\ OracleRaised(t)) =>
            /\ resp[t].status = 500
            /\ Stored(t) = pre[t]

(* C6: generate_response returns a list of exactly 3 books whatever the     *)
(* oracle replies.                                                          *)
C6_ExactlyThreeBooks ==
    \A t \in Threads :
        \A i \in Entries(t, "generate_response") :
            Len(log[t][i].result.value) = 3

(* C7: a criteria-followup request leaves last_query as it was: it calls    *)
(* generate_response with the stored last_query as the base request and     *)
(* the current query as criteria only, and replaces last_recommended_books  *)
(* with the generated list; so any number of consecutive criteria-         *)
(* followups after a fresh recommendation for q0 leave last_query equal to  *)
(* q0 (requests served one after the other).                                *)
C7_CriteriaKeepsLastQuery ==
    \A t \in Threads :
        Answered(t, "is_criteria_followup", TRUE) =>
            /\ Stored(t).last_query = pre[t].last_query
            /\ \A i \in Entries(t, "generate_response") :
                   /\ log[t][i].query = pre[t].last_query
                   /\ log[t][i].criteria = req[t].query
            /\ Succeeded(t) =>
                   /\ Called(t, "generate_response")
                   /\ Stored(t).last_recommended_books = answer[t]
                   /\ Answered(t, "generate_response", answer[t])

\* a fresh recommendation for q0 was followed by a criteria-followup with
\* another query, the list generated for it differing from the one it
\* replaced
C7_Witness ==
    \E t \in Threads :
        /\ Succeeded(t)
        /\ Responded(t, "criteria_followup")
        /\ LET m == Stored(t).messages IN
           /\ Len(m) = 4
           /\ m[2].content = FreshCaption
           /\ m[3].content # m[1].content
           /\ Stored(t).last_query = m[1].content
        /\ Stored(t).last_recommended_books # pre[t].last_recommended_books

(* C8: a request whose query is classified off-topic leaves the session's   *)
(* last_recommended_books and last_query unchanged, and its response        *)
(* carries the fixed rejection text and no book list (requests served one   *)
(* after the other).                                                        *)
C8_OffTopicFrame ==
    \A t \in Threads :
        Answered(t, "analyze_query", FALSE) =>
            /\ Stored(t).last_recommended_books = pre[t].last_recommended_books
            /\ Stored(t).last_query = pre[t].last_query
            /\ Done(t) => resp[t] = Ok(RejectionText, Absent, req[t].session_id)

\* an off-topic query was answered in a session holding recommendations
C8_Witness ==
    \E t \in Threads :
        /\ Succeeded(t)
        /\ Answered(t, "analyze_query", FALSE)
        /\ pre[t].last_recommended_books # <<>>
        /\ pre[t].last_query # None

(* C9: a request answered by the book-followup branch leaves                *)
(* last_recommended_books and last_query unchanged, and its response        *)
(* carries the generated detail text and no book list (requests served one  *)
(* after the other).                                                        *)
C9_BookFollowupFrame ==
    \A t \in Threads :
        (Called(t, "is_book_followup") /\ Truthy(matched_book[t])) =>
            /\ Stored(t).last_recommended_books = pre[t].last_recommended_books
            /\ Stored(t).last_query = pre[t].last_query
            /\ Succeeded(t) =>
                   /\ Responded(t, "book_followup")
                   /\ resp[t].text \in DetailTexts
                   /\ Answered(t, "get_book_details", resp[t].text)
                   /\ resp[t].books = Absent

\* the oracle matched a book of the list and the detail text was returned
C9_Witness ==
    \E t \in Threads :
        /\ Succeeded(t)
        /\ Responded(t, "book_followup")
        /\ matched_book[t] \in Range(pre[t].last_recommended_books)

(* C10: a request served while the session's last_recommended_books is      *)
(* empty never calls the book-followup oracle, and one served while         *)
(* last_query is null never calls the criteria-followup oracle; whenever    *)
(* either oracle is called, it is passed a non-empty list, or a last query  *)
(* (requests served one after the other).                                   *)
C10_GuardedOracleCalls ==
    \A t \in Threads :
        /\ pre[t].last_recommended_books = <<>> => ~Called(t, "is_book_followup")
        /\ pre[t].last_query = None => ~Called(t, "is_criteria_followup")
        /\ \A i \in Entries(t, "is_book_followup") : log[t][i].last_books # <<>>
        /\ \A i \in Entries(t, "is_criteria_followup") : log[t][i].last_query # None

\* a request in a new session went through both guards and reached the
\* topic oracle
C10_Witness ==
    \E t \in Threads :
        /\ pre[t].last_recommended_books = <<>>
        /\ pre[t].last_query = None
        /\ Called(t, "analyze_query")

(* C11: a request that reaches the fresh-recommendation branch updates     *)
(* both fields together: afterwards last_recommended_books is the list     *)
(* returned in the response and last_query is the request's query          *)
(* (requests served one after the other).                                   *)
C11_FreshUpdatesBoth ==
    \A t \in Threads :
        (Done(t) /\ Answered(t, "analyze_query", TRUE)) =>
            /\ Succeeded(t)
            /\ Responded(t, "fresh")
            /\ resp[t].books = Present(Stored(t).last_recommended_books)
            /\ Answered(t, "generate_response", Stored(t).last_recommended_books)
            /\ Stored(t).last_query = req[t].query

\* a fresh recommendation replaced both an earlier list and an earlier query
C11_Witness ==
    \E t \in Threads :
        /\ Succeeded(t)
        /\ Responded(t, "fresh")
        /\ pre[t].last_query \notin {None, req[t].query}
        /\ pre[t].last_recommended_books \notin {<<>>, Stored(t).last_recommended_books}

(* C12: a request whose body holds no query is answered 400 with the error *)
(* "No query provided" and mutates nothing: no ChatHistory is created for  *)
(* a session key not yet in the store, and an existing session's state is  *)
(* unchanged.                                                               *)
Rejects(t) == pc[t] = "idle" /\ pc'[t] = "done" /\ resp'[t].status = 400

C12_NoQueryNoMutation ==
    /\ [](\A t \in Threads :
            (Done(t) /\ req[t].body /\ req[t].query \in {None, ""}) =>
                /\ resp[t] = Error(400, NoQueryError)
                /\ chat_history[t] = 0
                /\ Stored(t) = pre[t])
    /\ [][(\E t \in Threads : Rejects(t))
            => UNCHANGED <<chat_histories, heap>>]_vars

\* a request without a query was answered 400 and its session key is still
\* not in the store
C12_Witness ==
    \E t \in Threads :
        /\ Done(t)
        /\ resp[t].status = 400
        /\ req[t].query = ""
        /\ chat_histories[req[t].session_id] = 0

(* C13: sessions are isolated, also when their requests interleave: a      *)
(* ChatHistory belongs to one session key; the state stored for a session  *)
(* changes only in a step of a request for that session; and a message is  *)
(* appended to a ChatHistory only by a request that took it from its own   *)
(* session's key, tagged as that request's.                                 *)
Acts(t) == pc'[t] # pc[t]

C13_SessionsIsolated ==
    /\ [](\A t \in Threads :
            chat_history[t] # 0 =>
                \A s \in SessionIds \ {req[t].session_id} :
                    chat_histories[s] # chat_history[t])
    /\ [](\A s1, s2 \in SessionIds :
            (s1 # s2 /\ chat_histories[s1] # 0)
                => chat_histories[s1] # chat_histories[s2])
    /\ [][\A s \in SessionIds :
            SessionState(s)' # SessionState(s)
                => \E t \in Threads : Acts(t) /\ req[t].session_id = s]_vars
    /\ [][\A o \in 1..Len(heap) :
            heap'[o] # heap[o]
                => \E t \in Threads :
                      /\ Acts(t)
                      /\ chat_history[t] = o
                      /\ \A i \in (Len(heap[o].messages) + 1)..Len(heap'[o].messages) :
                             heap'[o].messages[i].req = req[t].id]_vars

\* two requests for different sessions overlapped: the one received first
\* is still being handled, its user message appended, when the other has
\* been answered
C13_Witness ==
    \E t, u \in Threads :
        /\ Succeeded(t)
        /\ pc[u] \in {"L363", "L378", "L391"}
        /\ req[u].id < req[t].id
        /\ req[u].session_id # req[t].session_id
        /\ Me(u).messages # <<>>
        /\ Me(t).messages # <<>>

(* C14: the messages of a session are append-only: in every step of every  *)
(* request, failed and interleaved ones included, the session's messages   *)
(* before the step are a prefix of its messages after it.                   *)
C14_MessagesAppendOnly ==
    [][\A s \in SessionIds :
         IsPrefix(SessionState(s).messages, SessionState(s)'.messages)]_vars

(* C15: a successful response carries a book list if and only if the       *)
(* request took the criteria-followup or the fresh-recommendation branch,  *)
(* that is if and only if it generated a list and stored it as             *)
(* last_recommended_books; the list carried is the session's new           *)
(* last_recommended_books (requests served one after the other).           *)
C15_BooksIffRecommendation ==
    \A t \in Threads :
        Succeeded(t) =>
            /\ resp[t].books # Absent
                 <=> (Responded(t, "criteria_followup") \/ Responded(t, "fresh"))
            /\ resp[t].books # Absent <=> Called(t, "generate_response")
            /\ resp[t].books # Absent
                 => /\ resp[t].books = Present(Stored(t).last_recommended_books)
                    /\ Answered(t, "generate_response", Stored(t).last_recommended_books)
            /\ resp[t].books = Absent
                 => Stored(t).last_recommended_books = pre[t].last_recommended_books

\* a criteria-followup was answered with a list other than the one stored
\* before
C15_Witness ==
    \E t \in Threads :
        /\ Succeeded(t)
        /\ Responded(t, "criteria_followup")
        /\ resp[t].books # Absent
        /\ resp[t].books # Present(pre[t].last_recommended_books)

(* C16: is_book_followup returns null or one of the books of the list it   *)
(* was given, so the book passed to get_book_details is one of the         *)
(* session's last_recommended_books.                                        *)
C16_MatchIsListedBook ==
    \A t \in Threads :
        /\ \A i \in Entries(t, "is_book_followup") :
               ~log[t][i].result.raised =>
                   log[t][i].result.value \in {None} \cup Range(log[t][i].last_books)
        /\ pc[t] \in {"L354", "L355"} =>
               matched_book[t] \in Range(Me(t).last_recommended_books)

(* C17: the history analyze_query is passed consists of the last 3         *)
(* messages the session held before the current query arrived; the         *)
(* current query is not among them (requests served one after the other).  *)
C17_HistoryPrecedesQuery ==
    \A t \in Threads :
        \A i \in Entries(t, "analyze_query") :
            /\ log[t][i].history = LastN(pre[t].messages, AnalyzeWindow)
            /\ \A k \in 1..Len(log[t][i].history) :
                   log[t][i].history[k].req # req[t].id

(* C18: a malformed or unparseable reply of the book-followup oracle is    *)
(* not surfaced: is_book_followup yields null for it, and the request is   *)
(* answered 500 only when an oracle call raised.                            *)
C18_MalformedMatchIsNull ==
    \A t \in Threads :
        /\ matched_book[t] # Malformed
        /\ (Done(t) /\ req[t].body /\ resp[t].status = 500) => OracleRaised(t)

(* C19: a message's timestamp is the time at which it was created and      *)
(* appended: messages appended at different times, as those at different   *)
(* places of one ChatHistory are, carry different timestamps, and the      *)
(* timestamps never decrease along the messages.                            *)
C19_TimestampIsCreationTime ==
    \A o \in 1..Len(heap) :
        \A i, j \in 1..Len(heap[o].messages) :
            i < j =>
                /\ heap[o].messages[i].timestamp <= heap[o].messages[j].timestamp
                /\ heap[o].messages[i].timestamp # heap[o].messages[j].timestamp

(* C20: whenever no request for a session is in progress, its last_query   *)
(* is set if and only if its last_recommended_books is not empty; and once *)
(* they are set, no step of a later request makes last_query null or       *)
(* last_recommended_books empty again (requests served one after the       *)
(* other).                                                                  *)
InProgress(s) ==
    \E t \in Threads : pc[t] \notin {"idle", "done"} /\ req[t].session_id = s

C20_QueryIffBooks ==
    /\ [](\A s \in SessionIds :
            ~InProgress(s) =>
                (SessionState(s).last_query # None
                    <=> SessionState(s).last_recommended_books # <<>>))
    /\ [][\A s \in SessionIds :
            /\ SessionState(s).last_query # None
                 => SessionState(s)'.last_query # None
            /\ SessionState(s).last_recommended_books # <<>>
                 => SessionState(s)'.last_recommended_books # <<>>]_vars

\* in a session with both set, a later request that replaced the list has
\* been answered, and both are still set
C20_Witness ==
    \E t \in Threads :
        /\ Done(t)
        /\ ~InProgress(req[t].session_id)
        /\ pre[t].last_query # None
        /\ pre[t].last_recommended_books # <<>>
        /\ Stored(t).last_recommended_books # pre[t].last_recommended_books
        /\ Stored(t).last_query = pre[t].last_query

(* C21: for every successful request, in every branch, the messages it     *)
(* appended to the session are a user message whose content is the         *)
(* request's query and an assistant message whose content is exactly the   *)
(* response text returned (requests served one after the other).           *)
OfRequest(t, m) == m.req = req[t].id
Appended(t) ==
    LET m == Stored(t).messages
    IN  SubSeq(m, Len(pre[t].messages) + 1, Len(m))

C21_MessagesMatchExchange ==
    \A t \in Threads :
        Succeeded(t) =>
            /\ Len(Appended(t)) = 2
            /\ Appended(t)[1].role = "user"
            /\ Appended(t)[1].content = req[t].query
            /\ Appended(t)[2].role = "assistant"
            /\ Appended(t)[2].content = resp[t].text
            /\ \A i \in 1..2 : OfRequest(t, Appended(t)[i])

\* a request was answered with a text the oracle wrote, in a session that
\* held messages already
C21_Witness ==
    \E t \in Threads :
        /\ Succeeded(t)
        /\ Responded(t, "book_followup")
        /\ resp[t].text \in DetailTexts
        /\ Len(pre[t].messages) >= 2

====
